---- MODULE Spec2Model ----
(***************************************************************************)
(* Model of src/shared.py, the statistics and clustering core of the       *)
(* Prysmian shipment dashboard.                                            *)
(*                                                                         *)
(* A dataset (pandas DataFrame) is a sequence of rows.  Numbers that the   *)
(* code holds as floats are held here as exact rationals [n, d] in lowest  *)
(* terms with d > 0; NaN is the value with d = 0.  Strings that may be     *)
(* missing use the value NULL.  An unrounded standard deviation is held as *)
(* its square (the sample variance), since the root is irrational; the     *)
(* rounded one (.round(2)) is computed by an integer square root.          *)
(***************************************************************************)
EXTENDS Integers, Sequences, FiniteSets, TLC

VARIABLES df, call, arg, ret, source

vars == <<df, call, arg, ret, source>>

\* ------------------------------------------------------------ bounds
\* the longest dataset drawn
MaxRows == 3
\* the largest n_clusters tried (the page offers 2 to 5)
MaxK == 3

\* the most rows of the first route in a dataset of the Risk Analysis page, and the
\* most rows of each of the two other routes
MaxRepeat == 11

MaxOther == 2

\* ------------------------------------------------------------ numbers
NULL == "<NA>"

NaN == [n |-> 0, d |-> 0]

IsNaN(x) == x.d = 0

Abs(i) == IF i < 0 THEN -i ELSE i

RECURSIVE GCD(_, _)
GCD(a, b) == IF b = 0 THEN a ELSE GCD(b, a % b)

\* the rational num/den (den > 0) in lowest terms
Rat(num, den) ==
    LET g == GCD(Abs(num), den)
    IN  [n |-> num \div g, d |-> den \div g]

RInt(i) == [n |-> i, d |-> 1]

RatAdd(x, y) == IF IsNaN(x) \/ IsNaN(y) THEN NaN
                ELSE Rat(x.n * y.d + y.n * x.d, x.d * y.d)

RatSub(x, y) == IF IsNaN(x) \/ IsNaN(y) THEN NaN
                ELSE Rat(x.n * y.d - y.n * x.d, x.d * y.d)

RatMulInt(x, i) == IF IsNaN(x) THEN NaN ELSE Rat(x.n * i, x.d)

RatDivInt(x, i) == IF IsNaN(x) \/ i = 0 THEN NaN ELSE Rat(x.n, x.d * i)

\* comparisons as Python/numpy make them: any comparison with NaN is False
RatLE(x, y) == ~IsNaN(x) /\ ~IsNaN(y) /\ x.n * y.d <= y.n * x.d

RatLT(x, y) == ~IsNaN(x) /\ ~IsNaN(y) /\ x.n * y.d < y.n * x.d

RatGT(x, y) == RatLT(y, x)

RatGE(x, y) == RatLE(y, x)

\* num/den rounded to the nearest integer, ties to the even one (numpy round)
RoundHalfEven(num, den) ==
    LET q == num \div den
        r == num - q * den
    IN  IF 2 * r < den THEN q
        ELSE IF 2 * r > den THEN q + 1
        ELSE IF q % 2 = 0 THEN q ELSE q + 1

Round1(x) == IF IsNaN(x) THEN NaN ELSE Rat(RoundHalfEven(x.n * 10, x.d), 10)

Round2(x) == IF IsNaN(x) THEN NaN ELSE Rat(RoundHalfEven(x.n * 100, x.d), 100)

\* floor of the square root of a natural number, by bisection on lo..hi
RECURSIVE ISqrtIn(_, _, _)
ISqrtIn(x, lo, hi) ==
    IF lo >= hi THEN lo
    ELSE LET mid == (lo + hi + 1) \div 2
         IN  IF mid * mid <= x THEN ISqrtIn(x, mid, hi) ELSE ISqrtIn(x, lo, mid - 1)

ISqrt(x) == ISqrtIn(x, 0, 40000)

\* sqrt(v) rounded to 2 decimals: round(y) = floor((floor(2y) + 1) / 2)
SqrtRound2(v) ==
    IF IsNaN(v) THEN NaN
    ELSE Rat((ISqrt((40000 * v.n) \div v.d) + 1) \div 2, 100)

\* ------------------------------------------------------------ sequences
RECURSIVE SumSeq(_)
SumSeq(s) == IF s = <<>> THEN 0 ELSE Head(s) + SumSeq(Tail(s))

RECURSIVE RatSumSeq(_)
RatSumSeq(s) == IF s = <<>> THEN RInt(0) ELSE RatAdd(Head(s), RatSumSeq(Tail(s)))

RECURSIVE SelectRows(_, _, _)
SelectRows(s, col, key) ==
    IF s = <<>> THEN <<>>
    ELSE IF Head(s)[col] = key THEN <<Head(s)>> \o SelectRows(Tail(s), col, key)
    ELSE SelectRows(Tail(s), col, key)

Column(s, col) == [i \in 1..Len(s) |-> s[i][col]]

Range(s) == {s[i] : i \in 1..Len(s)}

\* ------------------------------------------------------------ pandas reductions
\* every string of the model, in the lexicographic order pandas sorts group keys by
SortedKeys == <<"2024-01", "2024-02", "A", "B", "High Risk", "Low Risk", "Medium Risk", "NaT",
                "r1", "r2", "r3">>

NotNull(s) == SelectSeq(s, LAMBDA v : v # NULL)

NotNaN(s) == SelectSeq(s, LAMBDA v : ~IsNaN(v))

\* Series.nunique(): distinct values, missing ones not counted
NUnique(s) == Cardinality(Range(s) \ {NULL})

\* Series.count(): the values that are not missing
Count(s) == Len(NotNull(s))

\* Series.sum(): missing values skipped, 0 over nothing
Sum(s) == RatSumSeq(NotNaN(s))

\* Series.mean(): missing values skipped, NaN over nothing
Mean(s) == RatDivInt(Sum(s), Len(NotNaN(s)))

\* the k-th smallest of a sequence of numbers without NaN
KthSmallest(s, k) ==
    CHOOSE v \in Range(s) :
        /\ Cardinality({i \in 1..Len(s) : RatLT(s[i], v)}) < k
        /\ k <= Cardinality({i \in 1..Len(s) : RatLE(s[i], v)})

\* Series.median(): missing values skipped, NaN over nothing
Median(s) ==
    LET v == NotNaN(s)
        m == Len(v)
    IN  IF m = 0 THEN NaN
        ELSE IF m % 2 = 1 THEN KthSmallest(v, (m + 1) \div 2)
        ELSE RatDivInt(RatAdd(KthSmallest(v, m \div 2), KthSmallest(v, m \div 2 + 1)), 2)

\* the sample variance (ddof = 1), the square of Series.std(): NaN under 2 values
Var(s) ==
    LET v  == NotNaN(s)
        m  == Len(v)
        mu == Mean(v)
        sq == [i \in 1..m |-> LET e == RatSub(v[i], mu) IN Rat(e.n * e.n, e.d * e.d)]
    IN  IF m < 2 THEN NaN ELSE RatDivInt(RatSumSeq(sq), m - 1)

\* the value left as it is, missing or not
FillNa0Skipped(x) == x

\* Series.fillna(0)
FillNa0(x) == IF IsNaN(x) THEN RInt(0) ELSE x

\* mean of a boolean Series (a column compared with a number: NaN compares False)
BoolMean(b) ==
    IF Len(b) = 0 THEN NaN
    ELSE Rat(Cardinality({i \in 1..Len(b) : b[i]}), Len(b))

\* DataFrame.groupby(col): the group keys present, sorted, missing keys dropped
GroupKeys(d, col) == SelectSeq(SortedKeys, LAMBDA k : \E i \in 1..Len(d) : d[i][col] = k)

\* stable insertion of row r into a sequence sorted descending by col
RECURSIVE InsertDesc(_, _, _)
InsertDesc(s, r, col) ==
    IF s = <<>> THEN <<r>>
    ELSE IF RatGE(Head(s)[col], r[col]) THEN <<Head(s)>> \o InsertDesc(Tail(s), r, col)
    ELSE <<r>> \o s

\* DataFrame.sort_values(col, ascending=False) on a short table: ties keep their order
RECURSIVE SortDesc(_, _)
SortDesc(s, col) ==
    IF s = <<>> THEN <<>>
    ELSE InsertDesc(SortDesc(SubSeq(s, 1, Len(s) - 1), col), s[Len(s)], col)

\* ------------------------------------------------------------ the dataset
\* load_data: the lateness flags are functions of Arrival_Delay (NaN compares False)
MakeRow(carrier, bol, container, delay, route, month) ==
    [Carrier_Name     |-> carrier,
     Bill_of_Lading   |-> bol,
     Container_Number |-> container,
     Arrival_Delay    |-> delay,
     Route            |-> route,
     Month_Year       |-> month,
     Transit_Days     |-> RInt(20),
     Roll_Count       |-> RInt(1),
     Is_Late          |-> IF RatGT(delay, RInt(0)) THEN RInt(1) ELSE RInt(0),
     Is_Severely_Late |-> IF RatGT(delay, RInt(7)) THEN RInt(1) ELSE RInt(0)]

\* rows a loaded file can hold.  The regular ones: two carriers, two Bills of Lading
\* (each travelling its own route), early or severely late.  Then the irregular ones:
\* a missing container number, a missing carrier, another month, a missing delay, and
\* a leg of a Bill of Lading on the other route.
RowDomain ==
    {MakeRow(c, b, "c1", RInt(dl), IF b = "b1" THEN "r1" ELSE "r2", "2024-01") :
        c \in {"A", "B"}, b \in {"b1", "b2"}, dl \in {-1, 9}}
    \cup {MakeRow("A", "b1", NULL, RInt(-1), "r1", "2024-01"),
          MakeRow(NULL, "b2", "c1", RInt(9), "r2", "2024-01"),
          MakeRow("B", "b2", "c1", RInt(9), "r2", "2024-02"),
          MakeRow("A", "b1", "c1", NaN, "r1", "2024-02"),
          MakeRow("A", "b1", "c1", RInt(9), "r2", "2024-01")}

Datasets == UNION {[1..m -> RowDomain] : m \in 0..MaxRows}

\* ------------------------------------------------------------ calculate_kpis
\* calculate_kpis with the rates taken over distinct shipments instead of rows
calculate_kpis_PerShipment(d) ==
    LET bols  == Range(Column(d, "Bill_of_Lading")) \ {NULL}
        hit(P(_)) == Cardinality({b \in bols : \E i \in 1..Len(d) :
                         d[i].Bill_of_Lading = b /\ P(d[i].Arrival_Delay)})
        rate(P(_)) == IF bols = {} THEN NaN ELSE Rat(hit(P) * 100, Cardinality(bols))
    IN  [total_shipments  |-> NUnique(Column(d, "Bill_of_Lading")),
         total_containers |-> Len(d),
         total_carriers   |-> NUnique(Column(d, "Carrier_Name")),
         total_routes     |-> NUnique(Column(d, "Route")),
         avg_delay        |-> Mean(Column(d, "Arrival_Delay")),
         median_delay     |-> Median(Column(d, "Arrival_Delay")),
         std_delay_sq     |-> Var(Column(d, "Arrival_Delay")),
         on_time_rate     |-> rate(LAMBDA v : RatLE(v, RInt(0))),
         late_rate        |-> rate(LAMBDA v : RatGT(v, RInt(0))),
         severe_late_rate |-> rate(LAMBDA v : RatGT(v, RInt(7))),
         avg_transit_time |-> Mean(Column(d, "Transit_Days")),
         total_rolls      |-> Sum(Column(d, "Roll_Count")),
         roll_rate        |-> RatMulInt(BoolMean([i \in 1..Len(d) |->
                                 RatGT(d[i].Roll_Count, RInt(0))]), 100)]

calculate_kpis(d) ==
    [total_shipments  |-> NUnique(Column(d, "Bill_of_Lading")),
     total_containers |-> Len(d),
     total_carriers   |-> NUnique(Column(d, "Carrier_Name")),
     total_routes     |-> NUnique(Column(d, "Route")),
     avg_delay        |-> Mean(Column(d, "Arrival_Delay")),
     median_delay     |-> Median(Column(d, "Arrival_Delay")),
     std_delay_sq     |-> Var(Column(d, "Arrival_Delay")),
     on_time_rate     |-> RatMulInt(BoolMean([i \in 1..Len(d) |->
                                 RatLE(d[i].Arrival_Delay, RInt(0))]), 100),
     late_rate        |-> RatMulInt(BoolMean([i \in 1..Len(d) |->
                                 RatGT(d[i].Arrival_Delay, RInt(0))]), 100),
     severe_late_rate |-> RatMulInt(BoolMean([i \in 1..Len(d) |->
                                 RatGT(d[i].Arrival_Delay, RInt(7))]), 100),
     avg_transit_time |-> Mean(Column(d, "Transit_Days")),
     total_rolls      |-> Sum(Column(d, "Roll_Count")),
     roll_rate        |-> RatMulInt(BoolMean([i \in 1..Len(d) |->
                                 RatGT(d[i].Roll_Count, RInt(0))]), 100)]

CalculateKpis ==
    /\ call = "none"
    /\ call' = "calculate_kpis"
    /\ arg' = <<>>
    /\ ret' = calculate_kpis(df)
    /\ UNCHANGED <<df, source>>

\* ------------------------------------------------------------ get_carrier_stats
\* CarrierAgg with 'count' where the source has 'nunique': rows counted as shipments
CarrierAggRowsAsShipments(key, g) ==
    [Carrier_Name     |-> key,
     Shipments        |-> Count(Column(g, "Bill_of_Lading")),
     Containers       |-> Count(Column(g, "Container_Number")),
     Avg_Delay        |-> Round2(Mean(Column(g, "Arrival_Delay"))),
     Median_Delay     |-> Round2(Median(Column(g, "Arrival_Delay"))),
     Std_Delay        |-> SqrtRound2(Var(Column(g, "Arrival_Delay"))),
     Avg_Transit      |-> Round2(Mean(Column(g, "Transit_Days"))),
     Late_Rate        |-> Round2(Mean(Column(g, "Is_Late"))),
     Severe_Late_Rate |-> Round2(Mean(Column(g, "Is_Severely_Late"))),
     Total_Rolls      |-> Round2(Sum(Column(g, "Roll_Count")))]

\* the .agg({...}).round(2) of one carrier's rows g, with the renamed columns
CarrierAgg(key, g) ==
    [Carrier_Name     |-> key,
     Shipments        |-> NUnique(Column(g, "Bill_of_Lading")),
     Containers       |-> Count(Column(g, "Container_Number")),
     Avg_Delay        |-> Round2(Mean(Column(g, "Arrival_Delay"))),
     Median_Delay     |-> Round2(Median(Column(g, "Arrival_Delay"))),
     Std_Delay        |-> SqrtRound2(Var(Column(g, "Arrival_Delay"))),
     Avg_Transit      |-> Round2(Mean(Column(g, "Transit_Days"))),
     Late_Rate        |-> Round2(Mean(Column(g, "Is_Late"))),
     Severe_Late_Rate |-> Round2(Mean(Column(g, "Is_Severely_Late"))),
     Total_Rolls      |-> Round2(Sum(Column(g, "Roll_Count")))]

\* the share left as a fraction of the total, not multiplied by 100
CarrierRowShareAsFraction(a, total) ==
    [Carrier_Name     |-> a.Carrier_Name,
     Shipments        |-> RInt(a.Shipments),
     Containers       |-> a.Containers,
     Avg_Delay        |-> a.Avg_Delay,
     Median_Delay     |-> a.Median_Delay,
     Std_Delay        |-> FillNa0(a.Std_Delay),
     Avg_Transit      |-> a.Avg_Transit,
     Total_Rolls      |-> a.Total_Rolls,
     Market_Share     |-> IF total = 0 THEN NaN ELSE Round1(Rat(a.Shipments, total)),
     On_Time_Rate     |-> Round1(RatMulInt(RatSub(RInt(1), a.Late_Rate), 100)),
     Late_Rate        |-> Round1(RatMulInt(a.Late_Rate, 100)),
     Severe_Late_Rate |-> Round1(RatMulInt(a.Severe_Late_Rate, 100))]

\* the derived columns: the rates become percentages of the rounded fractions
CarrierRow(a, total) ==
    [Carrier_Name     |-> a.Carrier_Name,
     Shipments        |-> RInt(a.Shipments),
     Containers       |-> a.Containers,
     Avg_Delay        |-> a.Avg_Delay,
     Median_Delay     |-> a.Median_Delay,
     Std_Delay        |-> FillNa0(a.Std_Delay),
     Avg_Transit      |-> a.Avg_Transit,
     Total_Rolls      |-> a.Total_Rolls,
     Market_Share     |-> IF total = 0 THEN NaN ELSE Round1(Rat(a.Shipments * 100, total)),
     On_Time_Rate     |-> Round1(RatMulInt(RatSub(RInt(1), a.Late_Rate), 100)),
     Late_Rate        |-> Round1(RatMulInt(a.Late_Rate, 100)),
     Severe_Late_Rate |-> Round1(RatMulInt(a.Severe_Late_Rate, 100))]

\* the shares by a division that fails when the Shipments sum to 0
get_carrier_stats_ZeroTotalFails(d) ==
    LET keys  == GroupKeys(d, "Carrier_Name")
        stats == [i \in 1..Len(keys) |->
                     CarrierAgg(keys[i], SelectRows(d, "Carrier_Name", keys[i]))]
        total == SumSeq([i \in 1..Len(keys) |-> stats[i].Shipments])
    IN  IF total = 0 THEN <<"ZeroDivisionError">>
        ELSE SortDesc([i \in 1..Len(keys) |-> CarrierRow(stats[i], total)], "Shipments")

get_carrier_stats(d) ==
    LET keys  == GroupKeys(d, "Carrier_Name")
        stats == [i \in 1..Len(keys) |->
                     CarrierAgg(keys[i], SelectRows(d, "Carrier_Name", keys[i]))]
        total == SumSeq([i \in 1..Len(keys) |-> stats[i].Shipments])
    IN  SortDesc([i \in 1..Len(keys) |-> CarrierRow(stats[i], total)], "Shipments")

GetCarrierStats ==
    /\ call = "none"
    /\ call' = "get_carrier_stats"
    /\ arg' = <<>>
    /\ ret' = get_carrier_stats(df)
    /\ UNCHANGED <<df, source>>

\* ------------------------------------------------------------ get_route_stats
RouteAgg(key, g) ==
    [Route            |-> key,
     Shipments        |-> NUnique(Column(g, "Bill_of_Lading")),
     Containers       |-> Count(Column(g, "Container_Number")),
     Avg_Delay        |-> Round2(Mean(Column(g, "Arrival_Delay"))),
     Median_Delay     |-> Round2(Median(Column(g, "Arrival_Delay"))),
     Std_Delay        |-> SqrtRound2(Var(Column(g, "Arrival_Delay"))),
     Avg_Transit      |-> Round2(Mean(Column(g, "Transit_Days"))),
     Late_Rate        |-> Round2(Mean(Column(g, "Is_Late"))),
     Severe_Late_Rate |-> Round2(Mean(Column(g, "Is_Severely_Late")))]

RouteRow(a) ==
    [Route            |-> a.Route,
     Shipments        |-> RInt(a.Shipments),
     Containers       |-> a.Containers,
     Avg_Delay        |-> a.Avg_Delay,
     Median_Delay     |-> a.Median_Delay,
     Std_Delay        |-> FillNa0(a.Std_Delay),
     Avg_Transit      |-> a.Avg_Transit,
     On_Time_Rate     |-> Round1(RatMulInt(RatSub(RInt(1), a.Late_Rate), 100)),
     Late_Rate        |-> Round1(RatMulInt(a.Late_Rate, 100)),
     Severe_Late_Rate |-> Round1(RatMulInt(a.Severe_Late_Rate, 100))]

\* the table left in the order of its route names
get_route_stats_Unsorted(d) ==
    LET keys == GroupKeys(d, "Route")
    IN  [i \in 1..Len(keys) |->
            RouteRow(RouteAgg(keys[i], SelectRows(d, "Route", keys[i])))]

get_route_stats(d) ==
    LET keys == GroupKeys(d, "Route")
    IN  SortDesc([i \in 1..Len(keys) |->
                     RouteRow(RouteAgg(keys[i], SelectRows(d, "Route", keys[i])))],
                 "Shipments")

GetRouteStats ==
    /\ call = "none"
    /\ call' = "get_route_stats"
    /\ arg' = <<>>
    /\ ret' = get_route_stats(df)
    /\ UNCHANGED <<df, source>>

\* ------------------------------------------------------------ get_monthly_trends
\* the month's rows counted as its shipments
MonthRowRowsAsShipments(key, g) ==
    LET late   == Round2(Mean(Column(g, "Is_Late")))
        severe == Round2(Mean(Column(g, "Is_Severely_Late")))
    IN  [Month_Year       |-> key,
         Shipments        |-> RInt(Count(Column(g, "Bill_of_Lading"))),
         Containers       |-> Count(Column(g, "Container_Number")),
         Avg_Delay        |-> Round2(Mean(Column(g, "Arrival_Delay"))),
         Avg_Transit      |-> Round2(Mean(Column(g, "Transit_Days"))),
         Late_Rate        |-> Round1(RatMulInt(late, 100)),
         Severe_Late_Rate |-> Round1(RatMulInt(severe, 100)),
         Total_Rolls      |-> Round2(Sum(Column(g, "Roll_Count")))]

MonthRow(key, g) ==
    LET late   == Round2(Mean(Column(g, "Is_Late")))
        severe == Round2(Mean(Column(g, "Is_Severely_Late")))
    IN  [Month_Year       |-> key,
         Shipments        |-> RInt(NUnique(Column(g, "Bill_of_Lading"))),
         Containers       |-> Count(Column(g, "Container_Number")),
         Avg_Delay        |-> Round2(Mean(Column(g, "Arrival_Delay"))),
         Avg_Transit      |-> Round2(Mean(Column(g, "Transit_Days"))),
         Late_Rate        |-> Round1(RatMulInt(late, 100)),
         Severe_Late_Rate |-> Round1(RatMulInt(severe, 100)),
         Total_Rolls      |-> Round2(Sum(Column(g, "Roll_Count")))]

get_monthly_trends(d) ==
    LET keys == GroupKeys(d, "Month_Year")
    IN  [i \in 1..Len(keys) |-> MonthRow(keys[i], SelectRows(d, "Month_Year", keys[i]))]

GetMonthlyTrends ==
    /\ call = "none"
    /\ call' = "get_monthly_trends"
    /\ arg' = <<>>
    /\ ret' = get_monthly_trends(df)
    /\ UNCHANGED <<df, source>>

\* ------------------------------------------------------------ calculate_risk_score
\* A row handed to the scorer maps a field name to <<>> when the row has no such
\* field and to <<value>> when it has; a value is a number or something that is not
\* one (isinstance(late_rate, (int, float)) is False for it).
Number(x) == [kind |-> "number", v |-> x]

NotANumber == [kind |-> "str", v |-> NaN]

\* row.get(key, default)
Get(row, key, default) == IF row[key] = <<>> THEN default ELSE row[key][1]

\* the first tier with '<' where the source has '<=' at its upper edge
DelayPenaltyOpenEdge(delay) ==
    IF RatLE(delay, RInt(0)) THEN 0
    ELSE IF RatLT(delay, RInt(3)) THEN 10
    ELSE IF RatLE(delay, RInt(7)) THEN 25
    ELSE 40

DelayPenalty(delay) ==
    IF RatLE(delay, RInt(0)) THEN 0
    ELSE IF RatLE(delay, RInt(3)) THEN 10
    ELSE IF RatLE(delay, RInt(7)) THEN 25
    ELSE 40

\* the two upper tiers with their penalties exchanged
StdPenaltySwapped(std_delay) ==
    IF RatLE(std_delay, RInt(2)) THEN 0
    ELSE IF RatLE(std_delay, RInt(5)) THEN 30
    ELSE 15

StdPenalty(std_delay) ==
    IF RatLE(std_delay, RInt(2)) THEN 0
    ELSE IF RatLE(std_delay, RInt(5)) THEN 15
    ELSE 30

LatePenalty(late_rate) ==
    IF RatLE(late_rate, Rat(3, 10)) THEN 0
    ELSE IF RatLE(late_rate, Rat(5, 10)) THEN 15
    ELSE 30

calculate_risk_score(row) ==
    LET delay     == Get(row, "Avg_Delay", Get(row, "Arrival_Delay", Number(RInt(0))))
        std_delay == Get(row, "Std_Delay", Number(RInt(0)))
        late_rate == Get(row, "Late_Rate", Get(row, "Severe_Late_Rate", Number(RInt(0))))
    IN  DelayPenalty(delay.v) + StdPenalty(std_delay.v)
          + (IF late_rate.kind = "number" THEN LatePenalty(late_rate.v) ELSE 0)

\* the values tried for each input: both sides of every tier edge, and a percentage
DelayValues == {RInt(-1), RInt(0), Rat(1, 2), RInt(3), Rat(7, 2), RInt(7), Rat(15, 2)}

StdValues == {RInt(0), RInt(2), Rat(5, 2), RInt(5), RInt(6)}

LateValues == {RInt(0), Rat(3, 10), Rat(2, 5), Rat(1, 2), Rat(3, 5), RInt(1), RInt(45)}

\* a value of the field that must not be read when the preferred field is present
Other(x, lo, hi) == IF RatLE(x, lo) THEN hi ELSE lo

\* field pairs (preferred, fallback): neither, one of them, or both
FieldPairs(values, lo, hi, extra) ==
    {<< <<>>, <<>> >>}
    \cup {<< <<Number(x)>>, <<>> >> : x \in values}
    \cup {<< <<>>, <<Number(x)>> >> : x \in values}
    \cup {<< <<Number(x)>>, <<Number(Other(x, lo, hi))>> >> : x \in values}
    \cup {<< <<e>>, <<>> >> : e \in extra}

ScoreRows ==
    {[Avg_Delay        |-> dp[1],
      Arrival_Delay    |-> dp[2],
      Std_Delay        |-> sd,
      Late_Rate        |-> lp[1],
      Severe_Late_Rate |-> lp[2]] :
        dp \in FieldPairs(DelayValues, RInt(0), RInt(8), {}),
        sd \in {<<>>} \cup {<<Number(x)>> : x \in StdValues},
        lp \in FieldPairs(LateValues, RInt(0), RInt(1), {NotANumber})}

CalculateRiskScore ==
    /\ call = "none"
    /\ \E row \in ScoreRows :
          /\ arg' = row
          /\ ret' = calculate_risk_score(row)
    /\ call' = "calculate_risk_score"
    /\ UNCHANGED <<df, source>>

\* ------------------------------------------------------------ perform_clustering
\* Series.sort_values() on a short table: ascending, ties keep their order
RECURSIVE InsertAsc(_, _, _)
InsertAsc(s, r, col) ==
    IF s = <<>> THEN <<r>>
    ELSE IF RatLE(Head(s)[col], r[col]) THEN <<Head(s)>> \o InsertAsc(Tail(s), r, col)
    ELSE <<r>> \o s

RECURSIVE SortAsc(_, _)
SortAsc(s, col) ==
    IF s = <<>> THEN <<>>
    ELSE InsertAsc(SortAsc(SubSeq(s, 1, Len(s) - 1), col), s[Len(s)], col)

\* groupby('Route', sort=False): the keys in the order of their first row
RECURSIVE FirstSeenKeys(_, _)
FirstSeenKeys(d, col) ==
    IF d = <<>> THEN <<>>
    ELSE LET rest == FirstSeenKeys(SubSeq(d, 1, Len(d) - 1), col)
             k    == d[Len(d)][col]
         IN  IF k = NULL \/ k \in Range(rest) THEN rest ELSE Append(rest, k)

\* the route keys as groupby('Route', sort=False) would give them
RouteKeysFirstSeen(d) == FirstSeenKeys(d, "Route")

\* the keys of df.groupby('Route') in perform_clustering
RouteKeys(d) == GroupKeys(d, "Route")

\* one row of route_agg: the aggregates are not rounded here
ClusterAgg(key, g) ==
    [Route            |-> key,
     Volume           |-> NUnique(Column(g, "Bill_of_Lading")),
     Avg_Delay        |-> Mean(Column(g, "Arrival_Delay")),
     Std_Delay_Sq     |-> FillNa0(Var(Column(g, "Arrival_Delay"))),
     Avg_Transit      |-> Mean(Column(g, "Transit_Days")),
     Late_Rate        |-> Mean(Column(g, "Is_Late")),
     Severe_Late_Rate |-> Mean(Column(g, "Is_Severely_Late")),
     Avg_Rolls        |-> Mean(Column(g, "Roll_Count"))]

route_agg(d) ==
    LET keys == RouteKeys(d)
    IN  [i \in 1..Len(keys) |-> ClusterAgg(keys[i], SelectRows(d, "Route", keys[i]))]

\* X = route_agg[features].values
Features(agg) ==
    [i \in 1..Len(agg) |->
        <<agg[i].Avg_Delay, agg[i].Std_Delay_Sq, agg[i].Late_Rate, agg[i].Severe_Late_Rate>>]

\* StandardScaler passes NaN on and refuses an empty matrix; KMeans refuses NaN and
\* fewer samples than clusters: each raises ValueError, which nothing catches
Raises(X, n_clusters) ==
    \/ Len(X) = 0
    \/ \E i \in 1..Len(X) : \E j \in 1..4 : IsNaN(X[i][j])
    \/ Len(X) < n_clusters

Min(a, b) == IF a < b THEN a ELSE b

\* The label vectors KMeans.fit_predict can return for X.  StandardScaler is an
\* injective affine map of each column, so two routes have the same scaled point
\* exactly when they have the same features; equal points get the same label, and
\* the labels in use are as many as n_clusters allows and the distinct points give.
\* Which of them comes back is fixed by X and random_state=42.
FitPredict(X, n_clusters) ==
    {km \in [1..Len(X) -> 0..(n_clusters - 1)] :
        /\ \A i, j \in 1..Len(X) : X[i] = X[j] => km[i] = km[j]
        /\ Cardinality(Range(km)) = Min(n_clusters, Cardinality(Range(X)))}

\* the label of the cluster at position i with n_clusters - 1 taken as n_clusters
RiskLabelOffByOne(i, n_clusters) ==
    IF i = 0 THEN "Low Risk"
    ELSE IF i = n_clusters THEN "High Risk"
    ELSE "Medium Risk"

\* the label of the cluster at position i (from 0) of the delay ranking
RiskLabel(i, n_clusters) ==
    IF i = 0 THEN "Low Risk"
    ELSE IF i = n_clusters - 1 THEN "High Risk"
    ELSE "Medium Risk"

\* route_agg.groupby('Cluster')['Avg_Delay'].mean().sort_values()
cluster_delays(agg, km) ==
    LET ids == SelectSeq([i \in 1..MaxK + 2 |-> i - 1], LAMBDA c : c \in Range(km))
    IN  SortAsc([i \in 1..Len(ids) |->
                    [Cluster   |-> ids[i],
                     Avg_Delay |-> Mean(Column(SelectRows(
                                      [j \in 1..Len(agg) |->
                                          [Cluster |-> km[j], Avg_Delay |-> agg[j].Avg_Delay]],
                                      "Cluster", ids[i]), "Avg_Delay"))]],
                "Avg_Delay")

risk_labels(agg, km, n_clusters) ==
    LET cd == cluster_delays(agg, km)
    IN  [c \in Range(km) |->
            RiskLabel((CHOOSE i \in 1..Len(cd) : cd[i].Cluster = c) - 1, n_clusters)]

\* route_agg with the Cluster and Risk_Level columns
Labelled(agg, km, n_clusters) ==
    LET labels == risk_labels(agg, km, n_clusters)
    IN  [i \in 1..Len(agg) |->
            [Route            |-> agg[i].Route,
             Volume           |-> agg[i].Volume,
             Avg_Delay        |-> agg[i].Avg_Delay,
             Std_Delay_Sq     |-> agg[i].Std_Delay_Sq,
             Avg_Transit      |-> agg[i].Avg_Transit,
             Late_Rate        |-> agg[i].Late_Rate,
             Severe_Late_Rate |-> agg[i].Severe_Late_Rate,
             Avg_Rolls        |-> agg[i].Avg_Rolls,
             Cluster          |-> km[i],
             Risk_Level       |-> labels[km[i]]]]

\* the summary with 'Volume': 'count' in place of 'Volume': 'sum'
cluster_stats_VolumeCounted(rows) ==
    LET levels == {rows[i].Risk_Level : i \in 1..Len(rows)}
    IN  [l \in levels |->
            LET g == SelectRows(rows, "Risk_Level", l)
            IN  [Routes           |-> Len(g),
                 Shipments        |-> Len(Column(g, "Volume")),
                 Avg_Delay        |-> Round2(Mean(Column(g, "Avg_Delay"))),
                 Late_Rate        |-> Round2(Mean(Column(g, "Late_Rate"))),
                 Severe_Late_Rate |-> Round2(Mean(Column(g, "Severe_Late_Rate")))]]

\* route_agg.groupby('Risk_Level').agg({...}).round(2), keyed by risk level
cluster_stats(rows) ==
    LET levels == {rows[i].Risk_Level : i \in 1..Len(rows)}
    IN  [l \in levels |->
            LET g == SelectRows(rows, "Risk_Level", l)
            IN  [Routes           |-> Len(g),
                 Shipments        |-> SumSeq(Column(g, "Volume")),
                 Avg_Delay        |-> Round2(Mean(Column(g, "Avg_Delay"))),
                 Late_Rate        |-> Round2(Mean(Column(g, "Late_Rate"))),
                 Severe_Late_Rate |-> Round2(Mean(Column(g, "Severe_Late_Rate")))]]

\* what perform_clustering returns when fit_predict answers km
perform_clustering(d, n_clusters, km) ==
    LET rows == Labelled(route_agg(d), km, n_clusters)
    IN  [raised |-> FALSE, route_agg |-> rows, cluster_stats |-> cluster_stats(rows)]

ValueError == [raised |-> TRUE, route_agg |-> <<>>, cluster_stats |-> <<>>]

PerformClustering ==
    /\ call = "none"
    /\ \E n_clusters \in 2..MaxK :
          LET X == Features(route_agg(df))
          IN  IF Raises(X, n_clusters)
              THEN /\ arg' = [n_clusters |-> n_clusters, km |-> <<>>]
                   /\ ret' = ValueError
              ELSE \E km \in FitPredict(X, n_clusters) :
                   /\ arg' = [n_clusters |-> n_clusters, km |-> km]
                   /\ ret' = perform_clustering(df, n_clusters, km)
    /\ call' = "perform_clustering"
    /\ UNCHANGED <<df, source>>

\* rows for the clustering: three routes with two delays each, so that two routes can
\* have the same features and three can have three different ones, and a missing delay
ClusterRowDomain ==
    {MakeRow("A", "b1", "c1", RInt(-1), "r1", "2024-01"),
     MakeRow("A", "b1", "c1", RInt(9), "r1", "2024-01"),
     MakeRow("A", "b1", "c1", RInt(2), "r2", "2024-01"),
     MakeRow("A", "b2", "c1", RInt(9), "r2", "2024-01"),
     MakeRow("A", "b1", "c1", RInt(-1), "r3", "2024-01"),
     MakeRow("A", "b2", "c1", RInt(2), "r3", "2024-01"),
     MakeRow("A", "b2", "c1", NaN, "r3", "2024-01")}

ClusterDatasets == UNION {[1..m -> ClusterRowDomain] : m \in 0..MaxRows}

\* ------------------------------------------------------------ identify_high_risk_routes
\* the row of get_route_stats as the scorer reads it: Avg_Delay, Std_Delay, Late_Rate
\* and Severe_Late_Rate are columns of the table, Arrival_Delay is not
ScorerRow(r) ==
    [Avg_Delay        |-> <<Number(r.Avg_Delay)>>,
     Arrival_Delay    |-> <<>>,
     Std_Delay        |-> <<Number(r.Std_Delay)>>,
     Late_Rate        |-> <<Number(r.Late_Rate)>>,
     Severe_Late_Rate |-> <<Number(r.Severe_Late_Rate)>>]

\* the filter written as 'not below the threshold', which lets a missing mean through
IsHighRiskNotBelow(r, threshold_delay) == ~RatLT(r.Avg_Delay, threshold_delay)

\* route_stats['Avg_Delay'] >= threshold_delay
IsHighRisk(r, threshold_delay) == RatGE(r.Avg_Delay, threshold_delay)

\* the scored table sorted in ascending order
SortByRiskAscending(t) == SortAsc(t, "Risk_Score")

\* high_risk.sort_values('Risk_Score', ascending=False)
SortByRisk(t) == SortDesc(t, "Risk_Score")

\* the row with its Risk_Score column
WithRiskScore(r) ==
    [k \in DOMAIN r \cup {"Risk_Score"} |->
        IF k = "Risk_Score" THEN RInt(calculate_risk_score(ScorerRow(r))) ELSE r[k]]

identify_high_risk_routes(d, threshold_delay) ==
    LET route_stats == get_route_stats(d)
        high_risk   == SelectSeq(route_stats, LAMBDA r : IsHighRisk(r, threshold_delay))
    IN  SortByRisk([i \in 1..Len(high_risk) |-> WithRiskScore(high_risk[i])])

\* the thresholds tried: the slider's lowest value, its default, and a mean delay that
\* a route of RowDomain has
Thresholds == {RInt(3), RInt(5), RInt(9)}

IdentifyHighRiskRoutes ==
    /\ call = "none"
    /\ \E threshold_delay \in Thresholds :
          /\ arg' = [threshold_delay |-> threshold_delay]
          /\ ret' = identify_high_risk_routes(df, threshold_delay)
    /\ call' = "identify_high_risk_routes"
    /\ UNCHANGED <<df, source>>

\* ------------------------------------------------------------ identify_best_performers
\* the filter with '>' where the source has '>='
IsQualifiedAbove(r, min_volume) == RatGT(r.Shipments, RInt(min_volume))

\* carrier_stats['Shipments'] >= min_volume
IsQualified(r, min_volume) == RatGE(r.Shipments, RInt(min_volume))

identify_best_performers(d, min_volume) ==
    LET carrier_stats == get_carrier_stats(d)
        qualified     == SelectSeq(carrier_stats, LAMBDA r : IsQualified(r, min_volume))
    IN  SortDesc(qualified, "On_Time_Rate")

\* the volumes tried: one and two shipments, and the page's ten
MinVolumes == {1, 2, 10}

IdentifyBestPerformers ==
    /\ call = "none"
    /\ \E min_volume \in MinVolumes :
          /\ arg' = [min_volume |-> min_volume]
          /\ ret' = identify_best_performers(df, min_volume)
    /\ call' = "identify_best_performers"
    /\ UNCHANGED <<df, source>>

\* ------------------------------------------------------------ get_carrier_route_matrix
\* the carrier/route pairs that have a row; groupby leaves out a missing key
PairKeys(d) ==
    {<<d[i].Carrier_Name, d[i].Route>> : i \in 1..Len(d)}
        \ {p \in {<<d[i].Carrier_Name, d[i].Route>> : i \in 1..Len(d)} :
              p[1] = NULL \/ p[2] = NULL}

PairRows(d, carrier, route) ==
    SelectSeq(d, LAMBDA row : row.Carrier_Name = carrier /\ row.Route = route)

\* Series.unstack(fill_value=fill): the carriers down, the routes across, and fill
\* where a pair is not in the series
Unstack(series, fill) ==
    LET index   == SelectSeq(SortedKeys, LAMBDA k : \E p \in DOMAIN series : p[1] = k)
        columns == SelectSeq(SortedKeys, LAMBDA k : \E p \in DOMAIN series : p[2] = k)
    IN  [index   |-> index,
         columns |-> columns,
         values  |-> [p \in Range(index) \X Range(columns) |->
                         IF p \in DOMAIN series THEN series[p] ELSE fill]]

\* the pivot with 0 put where a pair has no value
PivotMeanFilled(d, col) ==
    LET agged == [p \in PairKeys(d) |-> Mean(Column(PairRows(d, p[1], p[2]), col))]
        kept  == {p \in PairKeys(d) : ~IsNaN(agged[p])}
    IN  Unstack([p \in kept |-> agged[p]], RInt(0))

\* df.pivot_table(values=col, index='Carrier_Name', columns='Route', aggfunc='mean'):
\* the pairs without a mean are dropped before the table is spread out
PivotMean(d, col) ==
    LET agged == [p \in PairKeys(d) |-> Mean(Column(PairRows(d, p[1], p[2]), col))]
        kept  == {p \in PairKeys(d) : ~IsNaN(agged[p])}
    IN  Unstack([p \in kept |-> agged[p]], NaN)

\* df_temp['On_Time'] = (df_temp['Arrival_Delay'] <= 0).astype(int)
WithOnTime(d) ==
    [i \in 1..Len(d) |->
        [k \in DOMAIN d[i] \cup {"On_Time"} |->
            IF k = "On_Time"
            THEN (IF RatLE(d[i].Arrival_Delay, RInt(0)) THEN RInt(1) ELSE RInt(0))
            ELSE d[i][k]]]

\* matrix.round(1)
RoundAll1(m) == [m EXCEPT !.values = [p \in DOMAIN m.values |-> Round1(m.values[p])]]

\* matrix.round(2) * 100
RoundAll2Times100(m) ==
    [m EXCEPT !.values = [p \in DOMAIN m.values |-> RatMulInt(Round2(m.values[p]), 100)]]

get_carrier_route_matrix(d, metric) ==
    IF metric = "count"
    THEN Unstack([p \in PairKeys(d) |->
                     RInt(NUnique(Column(PairRows(d, p[1], p[2]), "Bill_of_Lading")))],
                 RInt(0))
    ELSE IF metric = "delay" THEN RoundAll1(PivotMean(d, "Arrival_Delay"))
    ELSE RoundAll2Times100(PivotMean(WithOnTime(d), "On_Time"))

Metrics == {"count", "delay", "on_time"}

\* the On_Time column put on the caller's dataset
df_after_matrix_InPlace(d, metric) == IF metric = "on_time" THEN WithOnTime(d) ELSE d

\* the caller's dataset after the call: the On_Time column is put on a copy
df_after_matrix(d, metric) == d

GetCarrierRouteMatrix ==
    /\ call = "none"
    /\ \E metric \in Metrics :
          /\ arg' = [metric |-> metric]
          /\ ret' = get_carrier_route_matrix(df, metric)
          /\ df' = df_after_matrix(df, metric)
    /\ call' = "get_carrier_route_matrix"
    /\ UNCHANGED source

\* ------------------------------------------------------------ the Risk Analysis page
\* len(filtered_df) > 10
PageMinRows == 10

\* the dataset of the page: a number of rows on each of three routes, enough on the
\* first to pass the guard alone
Repeat(row, n) == [i \in 1..n |-> row]

PageDatasets ==
    {Repeat(MakeRow("A", "b1", "c1", RInt(-1), "r1", "2024-01"), a)
       \o Repeat(MakeRow("B", "b2", "c1", RInt(9), "r2", "2024-01"), b)
       \o Repeat(MakeRow("A", "b3", "c1", RInt(2), "r3", "2024-01"), c) :
        a \in 0..MaxRepeat, b \in 0..MaxOther, c \in 0..MaxOther}

\* the three tables the page goes on with
PageTables(route_clusters, high_risk_routes, best_performers, called) ==
    [crashed          |-> FALSE,
     called           |-> called,
     route_clusters   |-> route_clusters,
     high_risk_routes |-> high_risk_routes,
     best_performers  |-> best_performers]

\* the ValueError of perform_clustering, which the page does not catch
PageCrash ==
    [crashed          |-> TRUE,
     called           |-> TRUE,
     route_clusters   |-> <<>>,
     high_risk_routes |-> <<>>,
     best_performers  |-> <<>>]

RiskPage ==
    /\ call = "none"
    /\ \E n_clusters \in 2..MaxK, risk_threshold \in Thresholds :
          /\ arg' = [n_clusters |-> n_clusters, risk_threshold |-> risk_threshold]
          /\ IF Len(df) > PageMinRows
             THEN LET X == Features(route_agg(df))
                  IN  IF Raises(X, n_clusters)
                      THEN ret' = PageCrash
                      ELSE \E km \in FitPredict(X, n_clusters) :
                              ret' = PageTables(
                                        perform_clustering(df, n_clusters, km).route_agg,
                                        identify_high_risk_routes(df, risk_threshold),
                                        identify_best_performers(df, 10),
                                        TRUE)
             ELSE ret' = PageTables(<<>>, <<>>, <<>>, FALSE)
    /\ call' = "risk_page"
    /\ UNCHANGED <<df, source>>

\* ------------------------------------------------------------ load_data
\* A table is a set of column names and a sequence of rows, each row a function from
\* the column names to values.  The file read by load_data is a table under the
\* source's column names.
column_mapping ==
    ("Arrival Delay (Days)" :> "Arrival_Delay")
    @@ ("Departure Delay (Days)" :> "Departure_Delay")
    @@ ("Transit (Days)" :> "Transit_Days")
    @@ ("Roll Count - POL" :> "Roll_Count")
    @@ ("Shipment Completed" :> "Completed")
    @@ ("Origin Country" :> "Origin_Country_Code")
    @@ ("POL LOCODE" :> "POL_Code")
    @@ ("POD LOCODE" :> "POD_Code")
    @@ ("Departure POL Date" :> "Departure_Date")
    @@ ("Arrival POD Date" :> "Arrival_Date")
    @@ ("Carrier Name" :> "Carrier_Name")
    @@ ("Shipment ID" :> "Shipment_ID")
    @@ ("Bill of Lading" :> "Bill_of_Lading")
    @@ ("Container Number" :> "Container_Number")

\* the entries of COUNTRY_CODES and LOCODE_MAPPING that the codes of the model reach
COUNTRY_CODES == ("CN" :> "China") @@ ("DE" :> "Germany") @@ ("IT" :> "Italy")

LOCODE_MAPPING ==
    ("CNSHA" :> <<"Shanghai", "China">>) @@ ("DEHAM" :> <<"Hamburg", "Germany">>)

\* str.upper() on the codes of the model: the ones not listed are upper case already
UpperCase == ("cn" :> "CN") @@ ("deham" :> "DEHAM") @@ ("itspe" :> "ITSPE")

Upper(x) == IF x \in DOMAIN UpperCase THEN UpperCase[x] ELSE x

\* locode[:2] on the upper-case locodes of the model
FirstTwo ==
    ("CNSHA" :> "CN") @@ ("DEHAM" :> "DE") @@ ("ITSPE" :> "IT") @@ ("ZZTOP" :> "ZZ")

\* the table looked up with the code as it is written
get_country_name_CaseSensitive(code) ==
    IF code = NULL THEN "Unknown"
    ELSE IF code \in DOMAIN COUNTRY_CODES THEN COUNTRY_CODES[code]
    ELSE code

get_country_name(code) ==
    IF code = NULL THEN "Unknown"
    ELSE IF Upper(code) \in DOMAIN COUNTRY_CODES THEN COUNTRY_CODES[Upper(code)]
    ELSE code

get_port_info(locode) ==
    IF locode = NULL THEN <<"Unknown", "Unknown">>
    ELSE LET upper == Upper(locode)
         IN  IF upper \in DOMAIN LOCODE_MAPPING THEN LOCODE_MAPPING[upper]
             ELSE <<upper, get_country_name(FirstTwo[upper])>>

\* the renaming loop: a source column in the mapping takes its new name
NewName(c) == IF c \in DOMAIN column_mapping THEN column_mapping[c] ELSE c

Rename(t) ==
    LET columns == {NewName(c) : c \in t.columns}
        OldName(n) == CHOOSE c \in t.columns : NewName(c) = n
    IN  [columns |-> columns,
         rows    |-> [i \in 1..Len(t.rows) |-> [n \in columns |-> t.rows[i][OldName(n)]]]]

\* df[name] = values
WithColumn(t, name, values) ==
    [columns |-> t.columns \cup {name},
     rows    |-> [i \in 1..Len(t.rows) |->
                    [c \in t.columns \cup {name} |->
                        IF c = name THEN values[i] ELSE t.rows[i][c]]]]

\* pd.to_datetime(errors='coerce') on the date texts of the model: a text that is not
\* a date becomes NaT
NaT == [year |-> 0, month |-> 0, day |-> 0]

Timestamps ==
    ("2024-01-15" :> [year |-> 2024, month |-> 1, day |-> 15])
    @@ ("2024-02-03" :> [year |-> 2024, month |-> 2, day |-> 3])

to_datetime(x) == IF x \in DOMAIN Timestamps THEN Timestamps[x] ELSE NaT

\* .dt.to_period('M').astype(str): the month as text, and the text "NaT" for NaT
PeriodText == (1 :> "2024-01") @@ (2 :> "2024-02")

MonthText(ts) == IF ts = NaT THEN "NaT" ELSE PeriodText[ts.month]

Labels == <<"On Time/Early", "1-3 Days Late", "4-7 Days Late", "7+ Days Late">>

\* the bins closed on the left, as pd.cut(right=False) would make them
CutLeftClosed(x) ==
    IF IsNaN(x) THEN NULL
    ELSE IF RatLT(x, RInt(0)) THEN Labels[1]
    ELSE IF RatLT(x, RInt(3)) THEN Labels[2]
    ELSE IF RatLT(x, RInt(7)) THEN Labels[3]
    ELSE Labels[4]

\* pd.cut(x, bins=[-inf, 0, 3, 7, inf], labels=Labels): bins closed on the right, and
\* no category for a missing value
Cut(x) ==
    IF IsNaN(x) THEN NULL
    ELSE IF RatLE(x, RInt(0)) THEN Labels[1]
    ELSE IF RatLE(x, RInt(3)) THEN Labels[2]
    ELSE IF RatLE(x, RInt(7)) THEN Labels[3]
    ELSE Labels[4]

AddOriginCountryName(t) ==
    IF "Origin_Country_Name" \notin t.columns /\ "Origin_Country_Code" \in t.columns
    THEN WithColumn(t, "Origin_Country_Name",
                    [i \in 1..Len(t.rows) |-> get_country_name(t.rows[i].Origin_Country_Code)])
    ELSE t

AddPolCity(t) ==
    IF "POL_City" \notin t.columns /\ "POL_Code" \in t.columns
    THEN WithColumn(t, "POL_City",
                    [i \in 1..Len(t.rows) |-> get_port_info(t.rows[i].POL_Code)[1]])
    ELSE t

AddPodInfo(t) ==
    IF "POD_City" \notin t.columns /\ "POD_Code" \in t.columns
    THEN WithColumn(WithColumn(t, "POD_City",
                               [i \in 1..Len(t.rows) |-> get_port_info(t.rows[i].POD_Code)[1]]),
                    "POD_Country_Name",
                    [i \in 1..Len(t.rows) |-> get_port_info(t.rows[i].POD_Code)[2]])
    ELSE t

\* the two columns the Route is put together from
RouteParts == {"Origin_Country_Name", "POD_Country_Name"}

\* the text origin + ' → ' + destination, kept as its three parts
AddRoute(t) ==
    IF "Route" \notin t.columns
    THEN WithColumn(t, "Route",
                    [i \in 1..Len(t.rows) |->
                        <<t.rows[i].Origin_Country_Name, " → ", t.rows[i].POD_Country_Name>>])
    ELSE t

ParseDate(t, col) ==
    IF col \in t.columns
    THEN WithColumn(t, col, [i \in 1..Len(t.rows) |-> to_datetime(t.rows[i][col])])
    ELSE t

AddMonthYear(t) ==
    IF "Month_Year" \notin t.columns /\ "Departure_Date" \in t.columns
    THEN WithColumn(t, "Month_Year",
                    [i \in 1..Len(t.rows) |-> MonthText(t.rows[i].Departure_Date)])
    ELSE t

\* (df['Arrival_Delay'] > bound).astype(int)
Exceeds(t, bound) ==
    [i \in 1..Len(t.rows) |->
        IF RatGT(t.rows[i].Arrival_Delay, RInt(bound)) THEN RInt(1) ELSE RInt(0)]

AddLateFlags(t) ==
    WithColumn(WithColumn(t, "Is_Late", Exceeds(t, 0)), "Is_Severely_Late", Exceeds(t, 7))

AddDelayCategory(t) ==
    WithColumn(t, "Delay_Category", [i \in 1..Len(t.rows) |-> Cut(t.rows[i].Arrival_Delay)])

AddStatus(t) ==
    IF "Status" \notin t.columns /\ "Completed" \in t.columns
    THEN WithColumn(t, "Status",
                    [i \in 1..Len(t.rows) |->
                        IF t.rows[i].Completed = FALSE THEN "In Transit" ELSE "Completed"])
    ELSE t

\* a column the code reads is not in the table
KeyError == [raised |-> TRUE, df |-> [columns |-> {}, rows |-> <<>>]]

load_data(file) ==
    LET named == AddPodInfo(AddPolCity(AddOriginCountryName(Rename(file))))
    IN  IF "Route" \notin named.columns /\ ~(RouteParts \subseteq named.columns)
        THEN KeyError
        ELSE LET dated == AddMonthYear(ParseDate(ParseDate(AddRoute(named),
                                                           "Departure_Date"),
                                                 "Arrival_Date"))
             IN  IF "Arrival_Delay" \notin dated.columns
                 THEN KeyError
                 ELSE [raised |-> FALSE,
                       df     |-> AddStatus(AddDelayCategory(AddLateFlags(dated)))]

\* the columns of a complete source file
SourceColumns ==
    {"Arrival Delay (Days)", "Transit (Days)", "Roll Count - POL", "Shipment Completed",
     "Origin Country", "POL LOCODE", "POD LOCODE", "Departure POL Date",
     "Arrival POD Date", "Carrier Name", "Bill of Lading", "Container Number", "Route"}

RawRow(delay, departure, origin, pod, completed) ==
    ("Arrival Delay (Days)" :> delay)
    @@ ("Transit (Days)" :> RInt(20))
    @@ ("Roll Count - POL" :> RInt(1))
    @@ ("Shipment Completed" :> completed)
    @@ ("Origin Country" :> origin)
    @@ ("POL LOCODE" :> "CNSHA")
    @@ ("POD LOCODE" :> pod)
    @@ ("Departure POL Date" :> departure)
    @@ ("Arrival POD Date" :> "2024-02-03")
    @@ ("Carrier Name" :> "A")
    @@ ("Bill of Lading" :> "b1")
    @@ ("Container Number" :> "c1")
    @@ ("Route" :> "r1")

\* rows a file can hold: a delay on each side of every bin edge and on the edge, a
\* missing delay, a second month, a departure date that is no date or is missing, and
\* codes in lower case, unknown or missing
RawRowDomain ==
    {RawRow(RInt(dl), "2024-01-15", "CN", "DEHAM", TRUE) : dl \in {-1, 0, 1, 3, 4, 7, 8}}
    \cup {RawRow(NaN, "2024-01-15", "CN", "DEHAM", FALSE),
          RawRow(RInt(8), "2024-02-03", "cn", "itspe", TRUE),
          RawRow(RInt(-1), "n/a", "ZZ", "ZZTOP", TRUE),
          RawRow(RInt(4), NULL, NULL, NULL, TRUE)}

\* the file without the columns that are not in cols
Project(rows, cols) == [i \in 1..Len(rows) |-> [c \in cols |-> rows[i][c]]]

\* the rows of the files in which columns are missing
SampleRows ==
    <<RawRow(RInt(8), "2024-01-15", "CN", "DEHAM", TRUE),
      RawRow(RInt(-1), "n/a", "cn", "ZZTOP", FALSE)>>

\* the files: every sequence of rows under all columns, and the sample rows under
\* every set of columns that keeps the container number
Files ==
    {[columns |-> SourceColumns, rows |-> rows] :
        rows \in UNION {[1..m -> RawRowDomain] : m \in 0..MaxRows}}
    \cup {[columns |-> cols \cup {"Container Number"},
           rows    |-> Project(SampleRows, cols \cup {"Container Number"})] :
            cols \in SUBSET (SourceColumns \ {"Container Number"})}

\* no file: the dataset is given as loaded
NoFile == [columns |-> {}, rows |-> <<>>]

LoadData ==
    /\ call = "none"
    /\ call' = "load_data"
    /\ arg' = <<>>
    /\ ret' = load_data(source)
    /\ df' = IF ret'.raised THEN df ELSE ret'.df.rows
    /\ UNCHANGED source

\* the columns get_monthly_trends reads
MonthlyColumns ==
    {"Month_Year", "Bill_of_Lading", "Container_Number", "Arrival_Delay", "Transit_Days",
     "Is_Late", "Is_Severely_Late", "Roll_Count"}

\* the dataset is the one loaded from the file, and has the columns of the trends
Loaded ==
    LET r == load_data(source)
    IN  ~r.raised /\ df = r.df.rows /\ MonthlyColumns \subseteq r.df.columns

\* ------------------------------------------------------------ specification
Init ==
    /\ df \in Datasets
    /\ call = "none"
    /\ arg = <<>>
    /\ ret = <<>>
    /\ source = NoFile

\* the call returns to the page, which may make another call on the same dataset
Return ==
    /\ call # "none"
    /\ call' = "none"
    /\ arg' = <<>>
    /\ ret' = <<>>
    /\ UNCHANGED <<df, source>>

Next ==
    \/ CalculateKpis
    \/ GetCarrierStats
    \/ GetRouteStats
    \/ GetMonthlyTrends
    \/ Return

Spec == Init /\ [][Next]_vars

\* the scorer on its own: no dataset, rows drawn from ScoreRows
InitScore ==
    /\ df = <<>>
    /\ call = "none"
    /\ arg = <<>>
    /\ ret = <<>>
    /\ source = NoFile

NextScore ==
    \/ CalculateRiskScore
    \/ Return

SpecScore == InitScore /\ [][NextScore]_vars

\* the clustering and the two tables with a Std_Delay, on the datasets of three routes
InitCluster ==
    /\ df \in ClusterDatasets
    /\ call = "none"
    /\ arg = <<>>
    /\ ret = <<>>
    /\ source = NoFile

NextCluster ==
    \/ PerformClustering
    \/ GetCarrierStats
    \/ GetRouteStats
    \/ Return

SpecCluster == InitCluster /\ [][NextCluster]_vars

\* the two selections of the risk page, on the datasets of Init
\* the datasets of the two selections.  Neither reads Container_Number or Month_Year,
\* so the rows of RowDomain that differ from a regular row in these alone are left out
SelectDatasets ==
    LET rows == {r \in RowDomain : /\ r.Container_Number # NULL
                                   /\ r.Month_Year = "2024-01" \/ IsNaN(r.Arrival_Delay)}
    IN  UNION {[1..m -> rows] : m \in 0..MaxRows}

InitSelect ==
    /\ df \in SelectDatasets
    /\ call = "none"
    /\ arg = <<>>
    /\ ret = <<>>
    /\ source = NoFile

NextSelect ==
    \/ IdentifyHighRiskRoutes
    \/ IdentifyBestPerformers
    \/ Return

SpecSelect == InitSelect /\ [][NextSelect]_vars

\* the best performers alone, with every minimum volume
NextPerformers ==
    \/ IdentifyBestPerformers
    \/ Return

SpecPerformers == InitSelect /\ [][NextPerformers]_vars

\* loading a file, and the monthly trends of what was loaded
InitLoad ==
    /\ source \in Files
    /\ df = <<>>
    /\ call = "none"
    /\ arg = <<>>
    /\ ret = <<>>

NextLoad ==
    \/ LoadData
    \/ Loaded /\ GetMonthlyTrends
    \/ Return

SpecLoad == InitLoad /\ [][NextLoad]_vars

\* the carrier/route matrix next to the two other outputs with an on-time rate
NextMatrix ==
    \/ GetCarrierRouteMatrix
    \/ CalculateKpis
    \/ GetCarrierStats
    \/ Return

SpecMatrix == Init /\ [][NextMatrix]_vars

\* every query function, in any order, on the datasets of three routes
NextQueries ==
    \/ CalculateKpis
    \/ GetCarrierStats
    \/ GetRouteStats
    \/ GetMonthlyTrends
    \/ PerformClustering
    \/ GetCarrierRouteMatrix
    \/ IdentifyHighRiskRoutes
    \/ IdentifyBestPerformers
    \/ Return

SpecQueries == InitCluster /\ [][NextQueries]_vars

\* the Risk Analysis page on its filtered dataset
InitPage ==
    /\ df \in PageDatasets
    /\ call = "none"
    /\ arg = <<>>
    /\ ret = <<>>
    /\ source = NoFile

NextPage ==
    \/ RiskPage
    \/ Return

SpecPage == InitPage /\ [][NextPage]_vars

\* ------------------------------------------------------------ properties
NumRows(d, col, key) == Cardinality({i \in 1..Len(d) : d[i][col] = key})

SumCol(t, col) == SumSeq([i \in 1..Len(t) |-> t[i][col]])

RatSumCol(t, col) == RatSumSeq([i \in 1..Len(t) |-> t[i][col]])

\* every row names its carrier
AllCarriersKnown(d) == \A i \in 1..Len(d) : d[i].Carrier_Name # NULL

\* no Bill_of_Lading occurs under two different carriers
OneCarrierPerBoL(d) ==
    \A i, j \in 1..Len(d) :
        (d[i].Bill_of_Lading = d[j].Bill_of_Lading /\ d[i].Bill_of_Lading # NULL)
            => d[i].Carrier_Name = d[j].Carrier_Name

\* C1 as stated: for every dataset the Shipments column of get_carrier_stats sums to
\* total_shipments of calculate_kpis.
C1_ShipmentsPartitionAnyDataset ==
    call = "get_carrier_stats"
        => RatSumCol(ret, "Shipments") = RInt(calculate_kpis(df).total_shipments)

\* C1 amended: the Shipments column of get_carrier_stats sums to total_shipments of
\* calculate_kpis for every dataset in which every row names its carrier and no
\* Bill_of_Lading occurs under two carriers.
C1_ShipmentsPartition ==
    (call = "get_carrier_stats" /\ AllCarriersKnown(df) /\ OneCarrierPerBoL(df))
        => RatSumCol(ret, "Shipments") = RInt(calculate_kpis(df).total_shipments)

\* two carriers, one of them with two container rows under one Bill_of_Lading
C1_Witness ==
    /\ call = "get_carrier_stats"
    /\ AllCarriersKnown(df) /\ OneCarrierPerBoL(df)
    /\ Len(df) = 3 /\ Len(ret) = 2
    /\ calculate_kpis(df).total_shipments = 2

\* C2: the Containers value of every group of get_carrier_stats, get_route_stats and
\* get_monthly_trends is the number of dataset rows of the group, and the Containers
\* column of get_carrier_stats sums to total_containers (the number of rows).
C2_ContainersCountRows ==
    /\ call = "get_carrier_stats" =>
          /\ \A i \in 1..Len(ret) :
                ret[i].Containers = NumRows(df, "Carrier_Name", ret[i].Carrier_Name)
          /\ SumCol(ret, "Containers") = calculate_kpis(df).total_containers
    /\ call = "get_route_stats" =>
          \A i \in 1..Len(ret) : ret[i].Containers = NumRows(df, "Route", ret[i].Route)
    /\ call = "get_monthly_trends" =>
          \A i \in 1..Len(ret) :
              ret[i].Containers = NumRows(df, "Month_Year", ret[i].Month_Year)
    /\ call = "calculate_kpis" => ret.total_containers = Len(df)

\* C3: distinct shipments never exceed containers, in calculate_kpis and in every row
\* of get_carrier_stats, get_route_stats and get_monthly_trends.
C3_ShipmentsAtMostContainers ==
    /\ call = "calculate_kpis" => ret.total_shipments <= ret.total_containers
    /\ call \in {"get_carrier_stats", "get_route_stats", "get_monthly_trends"} =>
          \A i \in 1..Len(ret) : RatLE(ret[i].Shipments, RInt(ret[i].Containers))

\* the dataset of the scenario: Carrier A with two container rows under one
\* Bill_of_Lading and delay -1, Carrier B with one container row, delay 9
Scenario(d) ==
    /\ Len(d) = 3
    /\ \A i \in 1..3 : d[i].Container_Number # NULL
    /\ Cardinality({i \in 1..3 : /\ d[i].Carrier_Name = "A"
                                 /\ d[i].Bill_of_Lading = "b1"
                                 /\ d[i].Arrival_Delay = RInt(-1)}) = 2
    /\ Cardinality({i \in 1..3 : /\ d[i].Carrier_Name = "B"
                                 /\ d[i].Bill_of_Lading = "b2"
                                 /\ d[i].Arrival_Delay = RInt(9)}) = 1

StatsOf(t, carrier) == t[CHOOSE i \in 1..Len(t) : t[i].Carrier_Name = carrier]

DelayOf(row) ==
    IF row.Avg_Delay # <<>> THEN row.Avg_Delay[1].v
    ELSE IF row.Arrival_Delay # <<>> THEN row.Arrival_Delay[1].v
    ELSE RInt(0)

StdOf(row) == IF row.Std_Delay # <<>> THEN row.Std_Delay[1].v ELSE RInt(0)

LateOf(row) ==
    IF row.Late_Rate # <<>> THEN row.Late_Rate[1].v
    ELSE IF row.Severe_Late_Rate # <<>> THEN row.Severe_Late_Rate[1].v
    ELSE RInt(0)

\* the late rate the row holds is a number
LateIsNumber(row) == row.Late_Rate = <<>> \/ row.Late_Rate[1].kind = "number"

\* rows that agree with row on two inputs and are not lower on the third: the field
\* the input is read from, preferred or fallback, holds a value that is not lower
NotLower(row) ==
    {[row EXCEPT !.Avg_Delay = <<Number(x)>>] :
        x \in {y \in DelayValues : RatLE(DelayOf(row), y)}}
    \cup {[row EXCEPT !.Arrival_Delay = <<Number(x)>>] :
        x \in {y \in DelayValues : row.Avg_Delay = <<>> /\ RatLE(DelayOf(row), y)}}
    \cup {[row EXCEPT !.Std_Delay = <<Number(x)>>] :
        x \in {y \in StdValues : RatLE(StdOf(row), y)}}
    \cup {[row EXCEPT !.Late_Rate = <<Number(x)>>] :
        x \in {y \in LateValues : RatLE(LateOf(row), y)}}
    \cup {[row EXCEPT !.Severe_Late_Rate = <<Number(x)>>] :
        x \in {y \in LateValues : row.Late_Rate = <<>> /\ RatLE(LateOf(row), y)}}

\* C9: calculate_risk_score is non-decreasing in each of mean delay, delay standard
\* deviation and late rate with the other two held fixed, and lies in 0..100.
C9_ScoreMonotoneBounded ==
    call = "calculate_risk_score" =>
        /\ ret \in 0..100
        /\ LateIsNumber(arg) => \A r \in NotLower(arg) : calculate_risk_score(r) >= ret

\* a row scored above 0 and below 100, with a row not lower in one input scored higher
C9_Witness ==
    /\ call = "calculate_risk_score"
    /\ LateIsNumber(arg)
    /\ ret = 55
    /\ \E r \in NotLower(arg) : calculate_risk_score(r) > ret

\* the penalty tables of the claim, as intervals
InOC(x, lo, hi) == RatLT(lo, x) /\ RatLE(x, hi)

TierDelay(x) ==
    CHOOSE p \in {0, 10, 25, 40} :
        \/ p = 0 /\ RatLE(x, RInt(0))
        \/ p = 10 /\ InOC(x, RInt(0), RInt(3))
        \/ p = 25 /\ InOC(x, RInt(3), RInt(7))
        \/ p = 40 /\ RatGT(x, RInt(7))

TierStd(x) ==
    CHOOSE p \in {0, 15, 30} :
        \/ p = 0 /\ RatLE(x, RInt(2))
        \/ p = 15 /\ InOC(x, RInt(2), RInt(5))
        \/ p = 30 /\ RatGT(x, RInt(5))

TierLate(x) ==
    CHOOSE p \in {0, 15, 30} :
        \/ p = 0 /\ RatLE(x, Rat(3, 10))
        \/ p = 15 /\ InOC(x, Rat(3, 10), Rat(1, 2))
        \/ p = 30 /\ RatGT(x, Rat(1, 2))

\* C10: the score is the sum of the three tiered penalties of the mean delay (read
\* from Avg_Delay, else Arrival_Delay), the standard deviation and the late rate
\* (read from Late_Rate, else Severe_Late_Rate), an absent field counting as 0.
C10_ScoreIsSumOfTiers ==
    (call = "calculate_risk_score" /\ LateIsNumber(arg)) =>
        ret = TierDelay(DelayOf(arg)) + TierStd(StdOf(arg)) + TierLate(LateOf(arg))

\* a row without Avg_Delay and Late_Rate, scored from the fallback fields at tier edges
C10_Witness ==
    /\ call = "calculate_risk_score"
    /\ arg.Avg_Delay = <<>> /\ arg.Arrival_Delay = <<Number(RInt(3))>>
    /\ arg.Late_Rate = <<>> /\ arg.Severe_Late_Rate = <<Number(Rat(1, 2))>>
    /\ arg.Std_Delay = <<Number(RInt(6))>>
    /\ ret = 55

\* the clusters of a labelled route table and the mean Avg_Delay of one of them
ClustersOf(rows) == {rows[i].Cluster : i \in 1..Len(rows)}

ClusterMean(rows, c) == Mean(Column(SelectRows(rows, "Cluster", c), "Avg_Delay"))

LevelOf(rows, c) == rows[CHOOSE i \in 1..Len(rows) : rows[i].Cluster = c].Risk_Level

IsLowest(rows, c) == \A o \in ClustersOf(rows) : RatLE(ClusterMean(rows, c), ClusterMean(rows, o))

IsHighest(rows, c) == \A o \in ClustersOf(rows) : RatLE(ClusterMean(rows, o), ClusterMean(rows, c))

\* C5: whatever number of non-empty clusters the clustering step returns, the cluster
\* of lowest mean Avg_Delay is Low Risk, the one of highest mean is High Risk, every
\* cluster strictly between is Medium Risk, and no Low Risk cluster has a higher mean
\* than a Medium or High Risk one.
C5_LabelsFollowDelayRank ==
    (call = "perform_clustering" /\ ~ret.raised) =>
        LET rows == ret.route_agg
            cs   == ClustersOf(rows)
        IN  /\ \E c \in cs : IsLowest(rows, c) /\ LevelOf(rows, c) = "Low Risk"
            /\ Cardinality(cs) >= 2 =>
                  \E c \in cs : IsHighest(rows, c) /\ LevelOf(rows, c) = "High Risk"
            /\ \A c \in cs :
                  (~IsLowest(rows, c) /\ ~IsHighest(rows, c))
                      => LevelOf(rows, c) = "Medium Risk"
            /\ \A c, o \in cs :
                  (LevelOf(rows, c) = "Low Risk" /\ LevelOf(rows, o) # "Low Risk")
                      => RatLE(ClusterMean(rows, c), ClusterMean(rows, o))

\* C6: with n_clusters = 2 no route is labelled Medium Risk.
C6_NoMediumWithTwoClusters ==
    (call = "perform_clustering" /\ arg.n_clusters = 2 /\ ~ret.raised) =>
        \A i \in 1..Len(ret.route_agg) : ret.route_agg[i].Risk_Level # "Medium Risk"

\* three routes in two clusters, one Low Risk and one High Risk
C6_Witness ==
    /\ call = "perform_clustering" /\ arg.n_clusters = 2 /\ ~ret.raised
    /\ Len(ret.route_agg) = 3
    /\ {ret.route_agg[i].Risk_Level : i \in 1..3} = {"Low Risk", "High Risk"}

NumRoutes(d) == Cardinality({d[i].Route : i \in 1..Len(d)} \ {NULL})

\* C7: with fewer distinct routes than n_clusters (none included) perform_clustering
\* signals insufficient data with an empty result and raises no exception.
C7_TooFewRoutesHandled ==
    (call = "perform_clustering" /\ NumRoutes(df) < arg.n_clusters) => ~ret.raised

\* the orders the m rows of a dataset can be put in
Orders(m) == {q \in [1..m -> 1..m] : \A i, j \in 1..m : q[i] = q[j] => i = j}

\* the dataset d with its rows in the order p
Reordered(d, p) == [i \in 1..Len(d) |-> d[p[i]]]

\* the datasets with the rows of d in any order
Reorderings(d) == {Reordered(d, p) : p \in Orders(Len(d))}

RiskLevels(rows) == {<<rows[i].Route, rows[i].Risk_Level>> : i \in 1..Len(rows)}

RouteGroup(d, r) == SelectRows(d, "Route", r.Route)

\* the share of the group's rows that are late, between 0 and 1
LateFraction(g) == Mean(Column(g, "Is_Late"))

\* C11: the Risk_Score of every route returned by identify_high_risk_routes holds the
\* late-rate penalty of the route's late fraction: 0 for at most 30% of its rows
\* late, 15 for more than 30% and at most 50%, 30 for more than 50%.
C11_LatePenaltyOnFraction ==
    call = "identify_high_risk_routes" =>
        \A i \in 1..Len(ret) :
            ret[i].Risk_Score =
                RInt(TierDelay(ret[i].Avg_Delay) + TierStd(ret[i].Std_Delay)
                       + TierLate(LateFraction(RouteGroup(df, ret[i]))))

\* ------------------------------------------------------------ C12
\* the delay is in the k-th of the four intervals cut at 0, 3 and 7
InInterval(x, k) ==
    \/ k = 1 /\ RatLE(x, RInt(0))
    \/ k = 2 /\ InOC(x, RInt(0), RInt(3))
    \/ k = 3 /\ InOC(x, RInt(3), RInt(7))
    \/ k = 4 /\ RatGT(x, RInt(7))

\* the row's category is the label of the one interval its delay is in
CategoryOfDelay(row) ==
    /\ Cardinality({k \in 1..4 : InInterval(row.Arrival_Delay, k)}) = 1
    /\ \A k \in 1..4 : InInterval(row.Arrival_Delay, k) => row.Delay_Category = Labels[k]

\* load_data returned a dataset
LoadReturned == call = "load_data" /\ ~ret.raised

\* C12 as stated: after load_data every row has exactly one of the four categories,
\* the one of the interval (<= 0, (0,3], (3,7], > 7) its Arrival_Delay is in.
C12_EveryRowHasCategory ==
    LoadReturned => \A i \in 1..Len(ret.df.rows) : CategoryOfDelay(ret.df.rows[i])

\* C12: after load_data every row with an Arrival_Delay has exactly one of the four
\* categories, the one of the interval (<= 0, (0,3], (3,7], > 7) its delay is in, and a
\* row without an Arrival_Delay has no category.
C12_EveryDelayHasCategory ==
    LoadReturned =>
        \A i \in 1..Len(ret.df.rows) :
            LET row == ret.df.rows[i]
            IN  IF IsNaN(row.Arrival_Delay) THEN row.Delay_Category = NULL
                ELSE CategoryOfDelay(row)

\* a loaded file with a delay on each of the three breakpoints
C12_Witness ==
    /\ LoadReturned
    /\ {ret.df.rows[i].Arrival_Delay : i \in 1..Len(ret.df.rows)}
         = {RInt(0), RInt(3), RInt(7)}

\* ------------------------------------------------------------ C13
\* the distinct Bills of Lading of the whole dataset
DistinctShipments(d) == NUnique(Column(d, "Bill_of_Lading"))

\* the shares of the table sum to 100, each share off by at most 0.05 from rounding
SharesSumTo100(t) ==
    LET off == RatSub(RatSumCol(t, "Market_Share"), RInt(100))
    IN  RatLE(off, Rat(5 * Len(t), 100)) /\ RatGE(off, Rat(-5 * Len(t), 100))

\* every share is the carrier's Shipments as a percentage of total, to one decimal
SharesOf(t, total) ==
    \A i \in 1..Len(t) : t[i].Market_Share = Round1(Rat(t[i].Shipments.n * 100, total))

\* some row has both a carrier and a Bill of Lading
SomeShipmentHasCarrier(d) ==
    \E i \in 1..Len(d) : d[i].Carrier_Name # NULL /\ d[i].Bill_of_Lading # NULL

\* C13 as stated: for every non-empty dataset the Market_Share column of
\* get_carrier_stats sums to 100 within rounding, and every share is the carrier's
\* Shipments as a percentage of the distinct shipments of the dataset.
C13_SharesOfAllShipments ==
    (call = "get_carrier_stats" /\ df # <<>>)
        => SharesSumTo100(ret) /\ SharesOf(ret, DistinctShipments(df))

\* C13 amended: when some row has a carrier and a Bill of Lading, the Market_Share
\* column of get_carrier_stats sums to 100 within rounding and every share is the
\* carrier's Shipments as a percentage of the sum of the Shipments column; that sum
\* is the distinct shipments of the dataset when every row names its carrier and no
\* Bill of Lading occurs under two carriers.
C13_SharesOfCarrierShipments ==
    (call = "get_carrier_stats" /\ SomeShipmentHasCarrier(df))
        => /\ SharesSumTo100(ret)
           /\ SharesOf(ret, RatSumCol(ret, "Shipments").n)
           /\ (AllCarriersKnown(df) /\ OneCarrierPerBoL(df))
                => SharesOf(ret, DistinctShipments(df))

\* two carriers sharing a Bill of Lading, with shares of two thirds and one third
C13_Witness ==
    /\ call = "get_carrier_stats"
    /\ ~OneCarrierPerBoL(df)
    /\ Len(ret) = 2
    /\ ret[1].Market_Share = Rat(667, 10)
    /\ ret[2].Market_Share = Rat(333, 10)

\* ------------------------------------------------------------ C14
\* C14: get_carrier_stats on a dataset without rows returns a table without rows.
C14_EmptyDatasetEmptyTable ==
    (call = "get_carrier_stats" /\ df = <<>>) => (ret = <<>> /\ Len(ret) = 0)

\* get_carrier_stats has been called on the dataset without rows
C14_Witness == call = "get_carrier_stats" /\ df = <<>> /\ ret = <<>>

\* ------------------------------------------------------------ C15
\* the group has a single row, or all its rows have the same delay
NoSpread(g) ==
    \/ Len(g) = 1
    \/ \A i, j \in 1..Len(g) : g[i].Arrival_Delay = g[j].Arrival_Delay

\* the row's spread is a number, and 0 when its group has no spread
SpreadIsNumber(std, g) == ~IsNaN(std) /\ (NoSpread(g) => std = RInt(0))

\* C15: the Std_Delay of every row of get_carrier_stats, of get_route_stats and of
\* the route table of perform_clustering is a number, never missing, and is 0 for a
\* group of a single row and for a group whose rows all have the same delay.
C15_StdDelayIsNumber ==
    /\ call = "get_carrier_stats" =>
          \A i \in 1..Len(ret) :
              SpreadIsNumber(ret[i].Std_Delay,
                             SelectRows(df, "Carrier_Name", ret[i].Carrier_Name))
    /\ call = "get_route_stats" =>
          \A i \in 1..Len(ret) :
              SpreadIsNumber(ret[i].Std_Delay, RouteGroup(df, ret[i]))
    /\ (call = "perform_clustering" /\ ~ret.raised) =>
          \A i \in 1..Len(ret.route_agg) :
              SpreadIsNumber(ret.route_agg[i].Std_Delay_Sq,
                             RouteGroup(df, ret.route_agg[i]))

\* the route table with a route of one row and a route of two rows of the same delay
C15_Witness ==
    /\ call = "get_route_stats"
    /\ Len(ret) = 2
    /\ \E i, j \in 1..2 :
          /\ Len(RouteGroup(df, ret[i])) = 1
          /\ Len(RouteGroup(df, ret[j])) = 2
          /\ NoSpread(RouteGroup(df, ret[j]))
          /\ ret[j].Avg_Delay = RInt(9)

\* ------------------------------------------------------------ C16
\* the routes and the carriers of the dataset
RoutesOf(d) == {d[i].Route : i \in 1..Len(d)}

CarriersOf(d) == {d[i].Carrier_Name : i \in 1..Len(d)} \ {NULL}

\* the mean delay of the rows of a route, from the dataset
MeanDelayOf(d, route) == Mean(Column(SelectRows(d, "Route", route), "Arrival_Delay"))

\* the distinct Bills of Lading of a carrier, from the dataset
ShipmentsOf(d, carrier) ==
    NUnique(Column(SelectRows(d, "Carrier_Name", carrier), "Bill_of_Lading"))

\* C16: identify_high_risk_routes returns the empty table when no route of the dataset
\* has a mean delay of at least the threshold, and identify_best_performers returns
\* the empty table when no carrier has at least min_volume shipments; an empty
\* dataset is a case of both.
C16_NothingQualifiesEmptyResult ==
    /\ (/\ call = "identify_high_risk_routes"
        /\ \A r \in RoutesOf(df) : ~RatGE(MeanDelayOf(df, r), arg.threshold_delay))
          => ret = <<>>
    /\ (/\ call = "identify_best_performers"
        /\ \A c \in CarriersOf(df) : ShipmentsOf(df, c) < arg.min_volume)
          => ret = <<>>

\* the selection comes back empty for a dataset with a route whose delays are all
\* missing and a route below the threshold
C16_Witness ==
    /\ call = "identify_high_risk_routes"
    /\ ret = <<>>
    /\ \E r \in RoutesOf(df) : IsNaN(MeanDelayOf(df, r))
    /\ \E r \in RoutesOf(df) : RatLT(MeanDelayOf(df, r), arg.threshold_delay)

\* ------------------------------------------------------------ C20
\* the row without its Risk_Score
WithoutRiskScore(r) == [k \in DOMAIN r \ {"Risk_Score"} |-> r[k]]

\* C20: identify_high_risk_routes(df, t) returns the rows of get_route_stats(df) with
\* Avg_Delay >= t, each once and no other row, each with the Risk_Score that
\* calculate_risk_score gives for it, in an order in which Risk_Score never increases.
C20_FilteredScoredSorted ==
    call = "identify_high_risk_routes" =>
        LET stats == get_route_stats(df)
            high  == {i \in 1..Len(stats) : RatGE(stats[i].Avg_Delay, arg.threshold_delay)}
        IN  /\ Len(ret) = Cardinality(high)
            /\ {WithoutRiskScore(ret[i]) : i \in 1..Len(ret)} = {stats[i] : i \in high}
            /\ \A i \in 1..Len(ret) :
                  ret[i].Risk_Score = RInt(calculate_risk_score(ScorerRow(ret[i])))
            /\ \A i, j \in 1..Len(ret) :
                  i < j => RatGE(ret[i].Risk_Score, ret[j].Risk_Score)

\* two routes returned, the second of the route table first, for its higher score
C20_Witness ==
    /\ call = "identify_high_risk_routes"
    /\ Len(ret) = 2
    /\ RatGT(ret[1].Risk_Score, ret[2].Risk_Score)
    /\ WithoutRiskScore(ret[1]) = get_route_stats(df)[2]

\* ------------------------------------------------------------ C17
\* the source columns of the delay, the carrier name and the Bill of Lading
Mandatory == {"Arrival Delay (Days)", "Carrier Name", "Bill of Lading"}

\* C17: load_data raises, and returns no dataset, for every file in which one of the
\* three mandatory columns is absent.
C17_MissingMandatoryAborts ==
    (call = "load_data" /\ ~(Mandatory \subseteq source.columns)) => ret.raised

\* ------------------------------------------------------------ C18
\* C18: load_data returns a dataset for every file that has the three mandatory
\* columns, whichever of the other columns are absent.
C18_OnlyMandatoryAborts ==
    (call = "load_data" /\ Mandatory \subseteq source.columns) => ~ret.raised

\* ------------------------------------------------------------ C19
\* the months of the calendar that the dates of the model fall in
CalendarMonths == {PeriodText[m] : m \in DOMAIN PeriodText}

\* the rows of the file whose departure date is a date
ValidDepartures(file) ==
    {i \in 1..Len(file.rows) : to_datetime(file.rows[i]["Departure POL Date"]) # NaT}

\* C19: every bucket of get_monthly_trends on a loaded dataset is a month of the
\* calendar, and the Containers of the buckets sum to the number of rows of the file
\* with a valid departure date.
C19_InvalidDatesExcluded ==
    (call = "get_monthly_trends" /\ Loaded) =>
        /\ \A i \in 1..Len(ret) : ret[i].Month_Year \in CalendarMonths
        /\ SumCol(ret, "Containers") = Cardinality(ValidDepartures(source))

\* ------------------------------------------------------------ C21
\* C21: identify_best_performers(df, m) returns the rows of get_carrier_stats(df) with
\* Shipments >= m, each once and no other row, in an order in which On_Time_Rate
\* never increases.
C21_QualifiedSortedByOnTime ==
    call = "identify_best_performers" =>
        LET stats == get_carrier_stats(df)
            qual  == {i \in 1..Len(stats) : RatGE(stats[i].Shipments, RInt(arg.min_volume))}
        IN  /\ Len(ret) = Cardinality(qual)
            /\ {ret[i] : i \in 1..Len(ret)} = {stats[i] : i \in qual}
            /\ \A i, j \in 1..Len(ret) :
                  i < j => RatGE(ret[i].On_Time_Rate, ret[j].On_Time_Rate)

\* both carriers returned, the second of the carrier table first for its higher
\* on-time rate, and one of them with exactly min_volume shipments
C21_Witness ==
    /\ call = "identify_best_performers"
    /\ Len(ret) = 2
    /\ RatGT(ret[1].On_Time_Rate, ret[2].On_Time_Rate)
    /\ ret[1] = get_carrier_stats(df)[2]
    /\ \E i \in 1..2 : ret[i].Shipments = RInt(arg.min_volume)

\* ------------------------------------------------------------ C22
\* the share of the rows with a delay of at most 0, between 0 and 1
OnTimeFraction(g) == BoolMean([i \in 1..Len(g) |-> RatLE(g[i].Arrival_Delay, RInt(0))])

\* the cell of a pair without rows: 0 under 'count', no value under the other metrics
EmptyCell(v, metric) == IF metric = "count" THEN v = RInt(0) ELSE IsNaN(v)

C23_SortedByShipments ==
    call \in {"get_carrier_stats", "get_route_stats"} =>
        \A i \in 1..(Len(ret) - 1) : RatGE(ret[i].Shipments, ret[i + 1].Shipments)

\* the route table with the second route name first, for its two shipments to one
C23_Witness ==
    /\ call = "get_route_stats"
    /\ Len(ret) = 2
    /\ ret[1].Route = "r2"
    /\ ret[1].Shipments = RInt(2)
    /\ ret[2].Shipments = RInt(1)

\* ------------------------------------------------------------ C24
\* the percentage of a fraction, to one decimal
Percent1(x) == Round1(RatMulInt(x, 100))

\* the share of the group's rows that are severely late, between 0 and 1
SevereFraction(g) == Mean(Column(g, "Is_Severely_Late"))

\* the rates of a row are the exact fractions of its group as percentages
RatesExact(row, g) ==
    /\ row.Late_Rate = Percent1(LateFraction(g))
    /\ row.Severe_Late_Rate = Percent1(SevereFraction(g))
    /\ "On_Time_Rate" \in DOMAIN row
          => row.On_Time_Rate = Percent1(RatSub(RInt(1), LateFraction(g)))

\* the column a table is grouped by
KeyColumn ==
    [get_carrier_stats  |-> "Carrier_Name",
     get_route_stats    |-> "Route",
     get_monthly_trends |-> "Month_Year"]

\* C24: every Late_Rate, Severe_Late_Rate and On_Time_Rate of get_carrier_stats,
\* get_route_stats and get_monthly_trends is the exact fraction of the group times
\* 100, rounded to one decimal (1 late row of 3: Late_Rate 33.3, On_Time_Rate 66.7).
C24_RatesToOneDecimal ==
    call \in DOMAIN KeyColumn =>
        \A i \in 1..Len(ret) :
            RatesExact(ret[i], SelectRows(df, KeyColumn[call], ret[i][KeyColumn[call]]))

\* ------------------------------------------------------------ C27
\* the statistics of a per-carrier row other than the market share
Battery ==
    {"Shipments", "Containers", "Avg_Delay", "Median_Delay", "Std_Delay", "Avg_Transit",
     "Late_Rate", "Severe_Late_Rate", "Total_Rolls"}

\* the statistics a monthly row has
MonthlyBattery == Battery \ {"Median_Delay", "Std_Delay"}

\* the per-carrier row computed over the rows of a month
AsCarrierRow(d, row) ==
    CarrierRow(CarrierAgg(row.Month_Year, SelectRows(d, "Month_Year", row.Month_Year)), 1)

\* C27 as stated: every row of get_monthly_trends carries the statistics of a
\* per-carrier row except the market share, computed over the rows of the month.
C27_MonthlyHasCarrierBattery ==
    call = "get_monthly_trends" =>
        \A i \in 1..Len(ret) :
            /\ Battery \subseteq DOMAIN ret[i]
            /\ \A f \in Battery \cap DOMAIN ret[i] : ret[i][f] = AsCarrierRow(df, ret[i])[f]

\* C27 amended: every row of get_monthly_trends carries the month and seven
\* statistics computed as in a per-carrier row (distinct shipments, containers, mean
\* delay, mean transit days, late rate, severe-late rate, total rolls), and no
\* median or standard deviation of the delay.
C27_MonthlyHasSevenStatistics ==
    call = "get_monthly_trends" =>
        \A i \in 1..Len(ret) :
            /\ DOMAIN ret[i] = MonthlyBattery \cup {"Month_Year"}
            /\ \A f \in MonthlyBattery : ret[i][f] = AsCarrierRow(df, ret[i])[f]

\* the trends of two months, one of them with two rows under one Bill of Lading
C27_Witness ==
    /\ call = "get_monthly_trends"
    /\ Len(ret) = 2
    /\ \E i \in 1..2 : ret[i].Containers = 2 /\ ret[i].Shipments = RInt(1)

\* ------------------------------------------------------------ C26
\* the origin codes of the file next to the country names of the loaded dataset
OriginNames ==
    {<<source.rows[i]["Origin Country"], ret.df.rows[i].Origin_Country_Name>> :
        i \in 1..Len(ret.df.rows)}

\* load_data returned a dataset for a file with an origin country column
OriginLoaded == LoadReturned /\ "Origin Country" \in source.columns

\* C26 as stated: the name is the table's entry for a code in the table, the code
\* itself for a code not in the table, and "Unknown" for a missing code.
C26_NameByTableEntry ==
    OriginLoaded =>
        \A p \in OriginNames :
            IF p[1] = NULL THEN p[2] = "Unknown"
            ELSE IF p[1] \in DOMAIN COUNTRY_CODES THEN p[2] = COUNTRY_CODES[p[1]]
            ELSE p[2] = p[1]

\* C26 amended: the name is the table's entry for a code whose upper-case form is in
\* the table, the code itself as written for any other code, and "Unknown" for a
\* missing code.
C26_NameByUpperCaseEntry ==
    OriginLoaded =>
        \A p \in OriginNames :
            IF p[1] = NULL THEN p[2] = "Unknown"
            ELSE IF Upper(p[1]) \in DOMAIN COUNTRY_CODES THEN p[2] = COUNTRY_CODES[Upper(p[1])]
            ELSE p[2] = p[1]

\* a file with a lower-case code of the table, a code not in the table and a
\* missing code
C26_Witness ==
    /\ OriginLoaded
    /\ OriginNames = {<<"cn", "China">>, <<"ZZ", "ZZ">>, <<NULL, "Unknown">>}

\* ------------------------------------------------------------ C28
\* every row of the dataset names the same carrier and the same route
OneCarrierOneRoute(d) ==
    /\ d # <<>>
    /\ \A i \in 1..Len(d) :
          /\ d[i].Carrier_Name # NULL
          /\ d[i].Carrier_Name = d[1].Carrier_Name
          /\ d[i].Route = d[1].Route

\* two percentages are within one point of each other
Within1(x, y) == RatLE(RatSub(x, y), RInt(1)) /\ RatLE(RatSub(y, x), RInt(1))

\* C28: for a dataset of one carrier and one route, on_time_rate of calculate_kpis,
\* On_Time_Rate of get_carrier_stats and the cell of the on-time matrix are within
\* one percentage point of each other, also when some delays are missing.
C28_OneOnTimeConvention ==
    (/\ call = "get_carrier_route_matrix"
     /\ arg.metric = "on_time"
     /\ OneCarrierOneRoute(df)) =>
        LET kpi     == calculate_kpis(df).on_time_rate
            carrier == get_carrier_stats(df)[1].On_Time_Rate
            cell    == ret.values[<<df[1].Carrier_Name, df[1].Route>>]
        IN  Within1(kpi, carrier) /\ Within1(kpi, cell) /\ Within1(carrier, cell)

\* ------------------------------------------------------------ C25
\* C25: no call of a query function changes the dataset it is given: after every step
\* the dataset has the rows, columns and values it had before, so that every later
\* call works on the dataset the first call saw.
C25_DatasetUnchanged == [][df' = df]_vars

\* the on-time matrix, which adds a column to its working table, has been computed
C25_Witness ==
    /\ call = "get_carrier_route_matrix"
    /\ arg.metric = "on_time"
    /\ Len(df) = 3
    /\ \A i \in 1..Len(df) : "On_Time" \notin DOMAIN df[i]

\* ------------------------------------------------------------ C29
\* C29: the page calls the three functions only for a dataset of more than 10 rows and
\* has three empty tables otherwise; and when it calls them, the dataset has at least
\* as many routes as the selected number of clusters, and the page does not crash.
C29_GuardPreventsCrash ==
    call = "risk_page" =>
        IF Len(df) > 10
        THEN ret.called /\ NumRoutes(df) >= arg.n_clusters /\ ~ret.crashed
        ELSE /\ ~ret.called
             /\ ~ret.crashed
             /\ ret.route_clusters = <<>>
             /\ ret.high_risk_routes = <<>>
             /\ ret.best_performers = <<>>

\* ------------------------------------------------------------ C30
ClusterLevels == {"Low Risk", "Medium Risk", "High Risk"}

\* a column of the per-risk-level summary, 0 for a level that has no row
StatOf(stats, level, col) == IF level \in DOMAIN stats THEN stats[level][col] ELSE 0

StatTotal(stats, col) ==
    StatOf(stats, "Low Risk", col) + StatOf(stats, "Medium Risk", col)
        + StatOf(stats, "High Risk", col)

\* C30: when perform_clustering returns, every route of the dataset is in exactly one
\* output row, every row has one of the three risk levels, some route is Low Risk, and
\* the summary by risk level keeps the totals: its route counts add up to the number
\* of routes and its shipments to the sum of the Volume of the routes.
C30_PartitionAndTotals ==
    (call = "perform_clustering" /\ ~ret.raised) =>
        LET rows  == ret.route_agg
            stats == ret.cluster_stats
        IN  /\ \A r \in RoutesOf(df) \ {NULL} :
                  Cardinality({i \in 1..Len(rows) : rows[i].Route = r}) = 1
            /\ \A i \in 1..Len(rows) : rows[i].Route \in RoutesOf(df) \ {NULL}
            /\ \A i \in 1..Len(rows) : rows[i].Risk_Level \in ClusterLevels
            /\ \E i \in 1..Len(rows) : rows[i].Risk_Level = "Low Risk"
            /\ DOMAIN stats \subseteq ClusterLevels
            /\ StatTotal(stats, "Routes") = NumRoutes(df)
            /\ StatTotal(stats, "Shipments") = SumSeq(Column(rows, "Volume"))

\* two routes in two risk levels, one of them with two shipments
C30_Witness ==
    /\ call = "perform_clustering" /\ ~ret.raised
    /\ Len(ret.route_agg) = 2
    /\ DOMAIN ret.cluster_stats = {"Low Risk", "High Risk"}
    /\ \E i \in 1..2 : ret.route_agg[i].Volume = 2

====
